---------------------------- MODULE Spec2Model ----------------------------
(***************************************************************************)
(* A model of src/functions.py: the back-projection of a pixel under       *)
(* linear constraints (get_xyz_coords, getWhitePoint3DCoords,              *)
(* calculatePpmMatrix), the consensus fits (calculatePlaneCoefs,           *)
(* calculateLineCoefs with validateData / validateDataLine) and the mask   *)
(* splitter splitTopBottomPoints.                                          *)
(*                                                                         *)
(* Arithmetic is exact: a real number is a fraction of integers, so a      *)
(* least-squares fit, a residual test and a linear solve are computed      *)
(* without rounding.  The consensus loop of RANSACRegressor.fit is         *)
(* modelled as the library documents it: one trial per step, a random      *)
(* sample drawn as any subset of min_samples indices, the two validity     *)
(* hooks, the inlier count, the best candidate, and the final refit.       *)
(* Between two candidates with the same inlier count the library keeps the *)
(* one with the better score; here either may be kept.                     *)
(***************************************************************************)
EXTENDS Integers, Sequences, FiniteSets

VARIABLES
    pc,         \* position of the running call
    inclusive,  \* whether a residual equal to the threshold is an inlier
                \* (residuals <= threshold, or < in older scikit-learn)
    src,        \* splitTopBottomPoints: the input mask, a set of <<row, col>>
    points,     \* the point sequence a fit or a loop works on
    fit,        \* the state of the running consensus loop
    first,      \* splitTopBottomPoints: what the first fit produced
    second,     \* splitTopBottomPoints: what the second fit produced
    ppm,        \* the perspective projection matrix, rows of 4 entries
    args,       \* the arguments of the running back-projection call
    res,        \* getWhitePoint3DCoords: the list res built so far
    result,     \* the value the call returned (when outcome = "ok")
    outcome     \* "none" while running, "ok", or the exception raised

vars == <<pc, inclusive, src, points, fit, first, second, ppm, args, res,
          result, outcome>>
fitvars == <<inclusive, fit, first, second>>
bpvars == <<ppm, args, res>>

-----------------------------------------------------------------------------
(* Generic helpers *)

Abs(a) == IF a < 0 THEN -a ELSE a

RECURSIVE SumF(_, _)
\* sum of f[i] for i in S
SumF(f, S) ==
    IF S = {} THEN 0
    ELSE LET i == CHOOSE k \in S : TRUE IN f[i] + SumF(f, S \ {i})

\* twice the median of the values of sequence v (numpy.median averages the
\* two middle values of an even-length array)
Median2(v) ==
    LET n == Len(v)
        Kth(k) == CHOOSE a \in {v[i] : i \in 1..n} :
                    /\ Cardinality({i \in 1..n : v[i] < a}) < k
                    /\ Cardinality({i \in 1..n : v[i] <= a}) >= k
    IN  IF n % 2 = 1 THEN 2 * Kth((n + 1) \div 2)
        ELSE Kth(n \div 2) + Kth(n \div 2 + 1)

NoIdx == {}
NoModel == [a |-> 0, b |-> 0, d0 |-> 0, den |-> 1]
NoFit == [n_trials |-> 0, found |-> FALSE, best |-> NoIdx, thr |-> <<0, 1>>,
          check |-> FALSE, ref |-> <<0, 1>>, all_invalid |-> TRUE,
          estimator |-> NoModel]
NoSet == [intercept |-> <<0, 1>>, mask |-> {}]
NoResult == [kind |-> "none"]
NoPpm == << >>
NoArgs == [op |-> "none"]

-----------------------------------------------------------------------------
(* Masks and point sequences (cv2.findNonZero, the rasterizing loops) *)

RECURSIVE findNonZero(_)
\* cv2.findNonZero: the non-zero pixels of a mask in row-major order, each
\* as the point <<x, y>> = <<column, row>>.  (For an empty mask it returns
\* None; the callers below say what then happens.)
findNonZero(mask) ==
    IF mask = {} THEN << >>
    ELSE LET p == CHOOSE q \in mask : \A r \in mask :
                     \/ q[1] < r[1]
                     \/ (q[1] = r[1] /\ q[2] <= r[2])
         IN  << <<p[2], p[1]>> >> \o findNonZero(mask \ {p})

RECURSIVE SelectIdx(_, _, _)
\* pts[keep] for a boolean mask: the kept points, in their order, from index i
SelectIdx(pts, keep, i) ==
    IF i > Len(pts) THEN << >>
    ELSE (IF i \in keep THEN << pts[i] >> ELSE << >>) \o SelectIdx(pts, keep, i + 1)

\* a faulty variant: the mask indexed [x, y] instead of [y, x]
RasterizeSwapped(pts, inliers) == {<<pts[i][1], pts[i][2]>> : i \in inliers}
\* for pt in pts[inliers]: set[pt[0, 1], pt[0, 0]] = 255
Rasterize(pts, inliers) == {<<pts[i][2], pts[i][1]>> : i \in inliers}

-----------------------------------------------------------------------------
(* Line fitting: LinearRegression on (x, y) pairs, and the RANSAC hooks *)

LineMaxTrials == 100     \* RANSACRegressor's max_trials when none is given
LineMinSamples == 2      \* min_samples = X.shape[1] + 1
InterceptGap == 25       \* validateDataLine's threshold

\* LinearRegression(fit_intercept=True).fit on the points pts[i], i \in S:
\* slope sn/d and intercept in/d with d > 0.  When every x is the same the
\* least-norm solution is slope 0 through the mean of y.
LineFit(pts, S) ==
    LET m   == Cardinality(S)
        Sx  == SumF([i \in S |-> pts[i][1]], S)
        Sy  == SumF([i \in S |-> pts[i][2]], S)
        Sxx == SumF([i \in S |-> pts[i][1] * pts[i][1]], S)
        Sxy == SumF([i \in S |-> pts[i][1] * pts[i][2]], S)
        D   == m * Sxx - Sx * Sx
    IN  IF D = 0 THEN [sn |-> 0, in |-> Sy, d |-> m]
        ELSE [sn |-> m * Sxy - Sx * Sy, in |-> Sy * Sxx - Sx * Sxy, d |-> D]

\* reg.estimator_.intercept_ as a fraction <<numerator, denominator>>
Intercept(model) == <<model.in, model.d>>

\* a < b for fractions with positive denominators
FracLess(a, b) == a[1] * b[2] < b[1] * a[2]

\* the closure returned by validateDataLine(intercept), applied to a model:
\* abs(intercept - model.intercept_) > 25
validateDataLine(intercept, model) ==
    Abs(intercept[1] * model.d - model.in * intercept[2])
        > InterceptGap * intercept[2] * model.d

\* residual_threshold=None: the median absolute deviation of y, times 4
MAD4(pts) ==
    LET ys   == [i \in 1..Len(pts) |-> pts[i][2]]
        med2 == Median2(ys)
        dev2 == [i \in 1..Len(pts) |-> Abs(2 * ys[i] - med2)]
    IN  Median2(dev2)

\* the absolute residual |y - predict(x)| of point p, times model.d
LineResidual(model, p) == Abs(model.d * p[2] - model.sn * p[1] - model.in)

\* residuals <= residual_threshold (strictly less before the library
\* counted the boundary in), for the threshold thr = <<num, den>>
WithinThreshold(residual, d, thr) ==
    IF inclusive THEN residual * thr[2] <= thr[1] * d
    ELSE residual * thr[2] < thr[1] * d

LineInlierMask(model, pts, thr) ==
    {i \in 1..Len(pts) : WithinThreshold(LineResidual(model, pts[i]), model.d, thr)}

\* the random sample of a trial: any min_samples distinct indices
Samples(n, k) == {S \in SUBSET (1..n) : Cardinality(S) = k}

\* n_inliers_best starts at 1
NInliersBest(f) == IF f.found THEN Cardinality(f.best) ELSE 1

\* a faulty variant: the sample-count check off by one
TooFewSamplesLax(pts, k) == Len(pts) < k - 1
\* RANSACRegressor.fit refuses fewer samples than min_samples (and an empty
\* array) with a ValueError before the loop starts
TooFewSamples(pts, k) == Len(pts) < k

LineBegin(pts, check, ref) ==
    [NoFit EXCEPT !.thr = <<MAD4(pts), 4>>, !.check = check, !.ref = ref]

\* _dynamic_max_trials(n_inliers, n_samples, min_samples, 0.99), the value
\*   ceil(log(1 - 0.99) / log(1 - (n_inliers / n_samples) ^ min_samples))
\* for the sample counts that occur here, as DynTrials[min_samples][n_samples]
\* [n_inliers] (with every sample an inlier the library gives 1)
DynTrials ==
    [k \in {2, 3} |->
       IF k = 2
       THEN << <<1>>, <<17, 1>>, <<40, 8, 1>>, <<72, 17, 6, 1>>,
               <<113, 27, 11, 5, 1>>, <<164, 40, 17, 8, 4, 1>> >>
       ELSE << <<1>>, <<35, 1>>, <<123, 14, 1>>, <<293, 35, 9, 1>>,
               <<574, 70, 19, 7, 1>>, <<993, 123, 35, 14, 6, 1>> >>]

\* max_trials as the loop sees it: the budget given, lowered to
\* _dynamic_max_trials of the best candidate once one is kept
TrialBudget(f, n, k, max_trials) ==
    IF f.found /\ DynTrials[k][n][Cardinality(f.best)] < max_trials
    THEN DynTrials[k][n][Cardinality(f.best)]
    ELSE max_trials

\* a faulty variant: one trial more than the budget
LoopMayRunOneMore(f, n, k, max_trials) ==
    f.n_trials <= TrialBudget(f, n, k, max_trials)
\* while self.n_trials_ < max_trials
LoopMayRun(f, n, k, max_trials) ==
    f.n_trials < TrialBudget(f, n, k, max_trials)

\* One trial of the consensus loop of calculateLineCoefs.
LineTrial ==
    /\ pc \in {"fit1", "fit2", "line"}
    /\ LoopMayRun(fit, Len(points), LineMinSamples, LineMaxTrials)
    /\ \E S \in Samples(Len(points), LineMinSamples) :
         LET model  == LineFit(points, S)
             mask   == LineInlierMask(model, points, fit.thr)
             n_in   == Cardinality(mask)
             skip   == [fit EXCEPT !.n_trials = @ + 1]
             keep   == [fit EXCEPT !.n_trials = @ + 1, !.found = TRUE,
                                   !.best = mask]
         IN  IF fit.check /\ ~validateDataLine(fit.ref, model)
             THEN fit' = skip          \* n_skips_invalid_model_
             ELSE IF n_in < NInliersBest(fit)
             THEN fit' = skip          \* n_skips_no_inliers_
             ELSE \/ fit' = keep
                  \/ /\ fit.found      \* same count, worse score
                     /\ n_in = NInliersBest(fit)
                     /\ fit' = skip
    /\ UNCHANGED <<pc, inclusive, src, points, first, second, result, outcome>>
    /\ UNCHANGED bpvars

-----------------------------------------------------------------------------
(* splitTopBottomPoints *)

MaxRowIdx == 1           \* mask rows 0, RowStep, .., MaxRowIdx * RowStep
MaxMaskPts == 4          \* at most this many non-zero pixels in a mask
RowStep == InterceptGap + 1   \* two such rows are lines the predicate tells apart

\* the input masks: two columns of an image whose other pixels are zero
SplitPixels == {<<k * RowStep, c>> : k \in 0..MaxRowIdx, c \in {0, 1}}
SplitMasks == {m \in SUBSET SplitPixels : Cardinality(m) <= MaxMaskPts}

\* calculateLineCoefs's return value: the final refit over the inliers of
\* the best candidate, and inlier_mask_
LineReturn(pts, f) == [intercept |-> Intercept(LineFit(pts, f.best)),
                       inliers |-> f.best]

\* a faulty variant: the two branches of the comparison exchanged
OrderPairSmallerBottom(first_set, intercept_first, second_set, intercept_second) ==
    IF FracLess(intercept_first, intercept_second)
    THEN [kind |-> "pair", bottom |-> first_set, top |-> second_set]
    ELSE [kind |-> "pair", bottom |-> second_set, top |-> first_set]
\* lines 176-183: the (bottom, top) pair
OrderPair(first_set, intercept_first, second_set, intercept_second) ==
    IF FracLess(intercept_first, intercept_second)
    THEN [kind |-> "pair", bottom |-> second_set, top |-> first_set]
    ELSE [kind |-> "pair", bottom |-> first_set, top |-> second_set]

Raise(e) ==
    /\ pc' = "raised"
    /\ outcome' = e
    /\ result' = NoResult

\* lines 159-162: findNonZero, then the first calculateLineCoefs call up to
\* its consensus loop.  np.reshape of the None that findNonZero gives for an
\* empty mask raises, and so does a fit of fewer than two points.
SplitStart ==
    /\ pc = "split"
    /\ LET pts == findNonZero(src)
       IN  IF TooFewSamples(pts, LineMinSamples)
           THEN /\ Raise("ValueError")
                /\ UNCHANGED <<points, fit>>
           ELSE /\ points' = pts
                /\ fit' = LineBegin(pts, FALSE, <<0, 1>>)
                /\ pc' = "fit1"
                /\ UNCHANGED <<result, outcome>>
    /\ UNCHANGED <<inclusive, src, first, second, ppm, args, res>>

\* the first fit leaves its loop (lines 161-171): no consensus set raises;
\* otherwise first_set is rasterized, points_top taken, and the second
\* calculateLineCoefs call runs up to its loop.
SplitFirstDone ==
    /\ pc = "fit1"
    /\ ~LoopMayRun(fit, Len(points), LineMinSamples, LineMaxTrials)
    /\ IF ~fit.found
       THEN /\ Raise("ValueError")
            /\ UNCHANGED <<points, fit, first>>
       ELSE LET r          == LineReturn(points, fit)
                points_top == SelectIdx(points, (1..Len(points)) \ r.inliers, 1)
            IN  /\ first' = [intercept |-> r.intercept,
                             mask |-> Rasterize(points, r.inliers)]
                /\ points' = points_top
                /\ IF TooFewSamples(points_top, LineMinSamples)
                   THEN /\ Raise("ValueError")
                        /\ UNCHANGED fit
                   ELSE /\ fit' = LineBegin(points_top, TRUE, r.intercept)
                        /\ pc' = "fit2"
                        /\ UNCHANGED <<result, outcome>>
    /\ UNCHANGED <<inclusive, src, second, ppm, args, res>>

\* the second fit leaves its loop (lines 170-183)
SplitSecondDone ==
    /\ pc = "fit2"
    /\ ~LoopMayRun(fit, Len(points), LineMinSamples, LineMaxTrials)
    /\ IF ~fit.found
       THEN /\ Raise("ValueError")
            /\ UNCHANGED second
       ELSE LET r == LineReturn(points, fit)
                second_set == Rasterize(points, r.inliers)
            IN  /\ second' = [intercept |-> r.intercept, mask |-> second_set]
                /\ result' = OrderPair(first.mask, first.intercept,
                                       second_set, r.intercept)
                /\ outcome' = "ok"
                /\ pc' = "returned"
    /\ UNCHANGED <<inclusive, src, points, fit, first, ppm, args, res>>

InitSplit ==
    /\ pc = "split"
    /\ inclusive \in BOOLEAN
    /\ src \in SplitMasks
    /\ points = << >>
    /\ fit = NoFit
    /\ first = NoSet
    /\ second = NoSet
    /\ ppm = NoPpm
    /\ args = NoArgs
    /\ res = << >>
    /\ result = NoResult
    /\ outcome = "none"

NextSplit == SplitStart \/ LineTrial \/ SplitFirstDone \/ SplitSecondDone

SpecSplit == InitSplit /\ [][NextSplit]_vars

-----------------------------------------------------------------------------
(* calculateLineCoefs called on its own with validateDataLine(c) *)

MaxCoord == 2            \* the points lie in (0..MaxCoord) x (0..MaxCoord)
MaxLinePts == 4          \* at most this many points

LinePointSets == {m \in SUBSET ((0..MaxCoord) \X (0..MaxCoord)) :
                    Cardinality(m) <= MaxLinePts}
RefIntercepts == {<<-InterceptGap, 1>>, <<0, 1>>}

\* lines 143-153 up to the consensus loop
LineStart ==
    /\ pc = "linecall"
    /\ IF TooFewSamples(points, LineMinSamples)
       THEN /\ Raise("ValueError")
            /\ UNCHANGED fit
       ELSE /\ fit' = LineBegin(points, TRUE, fit.ref)
            /\ pc' = "line"
            /\ UNCHANGED <<result, outcome>>
    /\ UNCHANGED <<inclusive, src, points, first, second, ppm, args, res>>

\* the loop is left and line 155 returns (or fit raised)
LineDone ==
    /\ pc = "line"
    /\ ~LoopMayRun(fit, Len(points), LineMinSamples, LineMaxTrials)
    /\ IF ~fit.found
       THEN Raise("ValueError")
       ELSE LET r == LineReturn(points, fit)
            IN  /\ result' = [kind |-> "line", intercept |-> r.intercept,
                              inliers |-> r.inliers]
                /\ outcome' = "ok"
                /\ pc' = "returned"
    /\ UNCHANGED <<inclusive, src, points, fit, first, second, ppm, args, res>>

InitLine ==
    /\ pc = "linecall"
    /\ inclusive \in BOOLEAN
    /\ src = {}
    /\ \E m \in LinePointSets : points = findNonZero(m)
    /\ \E c \in RefIntercepts : fit = [NoFit EXCEPT !.ref = c]
    /\ first = NoSet
    /\ second = NoSet
    /\ ppm = NoPpm
    /\ args = NoArgs
    /\ res = << >>
    /\ result = NoResult
    /\ outcome = "none"

NextLine == LineStart \/ LineTrial \/ LineDone

SpecLine == InitLine /\ [][NextLine]_vars

-----------------------------------------------------------------------------
(* Linear constraints [a, b, c, d], meaning a*x + b*y + c*z = d *)

Dot3(u, v) == u[1] * v[1] + u[2] * v[2] + u[3] * v[3]

Det3(m) ==
      m[1][1] * (m[2][2] * m[3][3] - m[2][3] * m[3][2])
    - m[1][2] * (m[2][1] * m[3][3] - m[2][3] * m[3][1])
    + m[1][3] * (m[2][1] * m[3][2] - m[2][2] * m[3][1])

\* get_xyz_coords, lines 78-79: constraint[0:-1] is the row of the system
\* and constraint[-1] its right-hand side
ConstraintRow(c) == <<c[1], c[2], c[3]>>
ConstraintRhs(c) == c[4]
\* the point p satisfies the equation that get_xyz_coords makes of c
ConstraintHolds(c, p) == Dot3(ConstraintRow(c), p) = ConstraintRhs(c)

-----------------------------------------------------------------------------
(* calculatePlaneCoefs *)

PlaneMaxTrials == 1000   \* max_trials=1000
PlaneMinSamples == 3     \* min_samples = X.shape[1] + 1
PlaneThreshold == <<1, 100>>   \* residual_threshold=0.01
MaxZ == 2                \* the z values of the input points lie in 0..MaxZ

\* the inputs: a point over each corner of the unit square (no three of
\* them in line, so every least-squares fit below is determined)
PlaneInputs == {<< <<0, 0, z[1]>>, <<1, 0, z[2]>>, <<0, 1, z[3]>>, <<1, 1, z[4]>> >>
                  : z \in [1..4 -> 0..MaxZ]}

\* a faulty variant: a sample is valid only when its z values are pairwise distinct
validateDataDistinct(a, b) == b[1] # b[2] /\ b[2] # b[3] /\ b[1] # b[3]
\* lines 94-95: a is X_subset, b is y_subset (the z values of the sample)
validateData(a, b) == ~(b[1] = b[2] /\ b[2] = b[3])

\* the sample S of pts as X_subset and y_subset
SubsetXY(pts, S) == LET q == SelectIdx(pts, S, 1)
                    IN  [i \in 1..Len(q) |-> <<q[i][1], q[i][2]>>]
SubsetZ(pts, S) == LET q == SelectIdx(pts, S, 1)
                   IN  [i \in 1..Len(q) |-> q[i][3]]

\* LinearRegression(fit_intercept=True).fit(xy, z) on the points of S, by
\* the normal equations: z = (a*x + b*y + d0) / den with den > 0
PlaneFit(pts, S) ==
    LET m   == Cardinality(S)
        Sx  == SumF([i \in S |-> pts[i][1]], S)
        Sy  == SumF([i \in S |-> pts[i][2]], S)
        Sz  == SumF([i \in S |-> pts[i][3]], S)
        Sxx == SumF([i \in S |-> pts[i][1] * pts[i][1]], S)
        Sxy == SumF([i \in S |-> pts[i][1] * pts[i][2]], S)
        Syy == SumF([i \in S |-> pts[i][2] * pts[i][2]], S)
        Sxz == SumF([i \in S |-> pts[i][1] * pts[i][3]], S)
        Syz == SumF([i \in S |-> pts[i][2] * pts[i][3]], S)
    IN  [a   |-> Det3(<< <<Sxz, Sxy, Sx>>, <<Syz, Syy, Sy>>, <<Sz, Sy, m>> >>),
         b   |-> Det3(<< <<Sxx, Sxz, Sx>>, <<Sxy, Syz, Sy>>, <<Sx, Sz, m>> >>),
         d0  |-> Det3(<< <<Sxx, Sxy, Sxz>>, <<Sxy, Syy, Syz>>, <<Sx, Sy, Sz>> >>),
         den |-> Det3(<< <<Sxx, Sxy, Sx>>, <<Sxy, Syy, Sy>>, <<Sx, Sy, m>> >>)]

\* |z - predict(x, y)| of point p, times model.den
PlaneResidual(model, p) ==
    Abs(model.den * p[3] - model.a * p[1] - model.b * p[2] - model.d0)

PlaneInlierMask(model, pts, thr) ==
    {i \in 1..Len(pts) : WithinThreshold(PlaneResidual(model, pts[i]), model.den, thr)}

\* a faulty variant: the intercept appended without its sign changed
PlaneListPlusD(model) == [coefs |-> <<model.a, model.b, -model.den, model.d0>>,
                          den |-> model.den]
\* line 110: list(np.append(coef_, [-1, -intercept_])), every entry over
\* the common denominator den
PlaneList(model) == [coefs |-> <<model.a, model.b, -model.den, -model.d0>>,
                     den |-> model.den]

\* lines 99-108 up to the consensus loop
PlaneStart ==
    /\ pc = "planecall"
    /\ IF TooFewSamples(points, PlaneMinSamples)
       THEN /\ Raise("ValueError")
            /\ UNCHANGED fit
       ELSE /\ fit' = [NoFit EXCEPT !.thr = PlaneThreshold]
            /\ pc' = "plane"
            /\ UNCHANGED <<result, outcome>>
    /\ UNCHANGED <<inclusive, src, points, first, second, ppm, args, res>>

\* One trial of the consensus loop of calculatePlaneCoefs.
PlaneTrial ==
    /\ pc = "plane"
    /\ LoopMayRun(fit, Len(points), PlaneMinSamples, PlaneMaxTrials)
    /\ \E S \in Samples(Len(points), PlaneMinSamples) :
         LET ok     == validateData(SubsetXY(points, S), SubsetZ(points, S))
             model  == PlaneFit(points, S)
             mask   == PlaneInlierMask(model, points, fit.thr)
             n_in   == Cardinality(mask)
             tried  == [fit EXCEPT !.n_trials = @ + 1]
             skip   == [tried EXCEPT !.all_invalid = FALSE]
             keep   == [skip EXCEPT !.found = TRUE, !.best = mask]
         IN  IF ~ok
             THEN fit' = tried         \* n_skips_invalid_data_
             ELSE IF n_in < NInliersBest(fit)
             THEN fit' = skip          \* n_skips_no_inliers_
             ELSE \/ fit' = keep
                  \/ /\ fit.found      \* same count, worse score
                     /\ n_in = NInliersBest(fit)
                     /\ fit' = skip
    /\ UNCHANGED <<pc, inclusive, src, points, first, second, result, outcome>>
    /\ UNCHANGED bpvars

\* the loop is left: fit raises when no consensus set was found, otherwise
\* the estimator is refitted over the inliers and line 110 returns
PlaneDone ==
    /\ pc = "plane"
    /\ ~LoopMayRun(fit, Len(points), PlaneMinSamples, PlaneMaxTrials)
    /\ IF ~fit.found
       THEN /\ Raise("ValueError")
            /\ UNCHANGED fit
       ELSE LET model == PlaneFit(points, fit.best)
            IN  /\ fit' = [fit EXCEPT !.estimator = model]
                /\ result' = [kind |-> "plane", list |-> PlaneList(model)]
                /\ outcome' = "ok"
                /\ pc' = "returned"
    /\ UNCHANGED <<inclusive, src, points, first, second, ppm, args, res>>

\* the is_data_valid call of one trial: validateData on a random sample
ValidateSample ==
    /\ pc = "samplecall"
    /\ \E S \in Samples(Len(points), PlaneMinSamples) :
         LET a == SubsetXY(points, S)
             b == SubsetZ(points, S)
         IN  result' = [kind |-> "verdict", a |-> a, b |-> b,
                        valid |-> validateData(a, b)]
    /\ outcome' = "ok"
    /\ pc' = "returned"
    /\ UNCHANGED <<inclusive, src, points, fit, first, second, ppm, args, res>>

InitPlane ==
    /\ pc = "planecall"
    /\ inclusive \in BOOLEAN
    /\ src = {}
    /\ points \in PlaneInputs
    /\ fit = NoFit
    /\ first = NoSet
    /\ second = NoSet
    /\ ppm = NoPpm
    /\ args = NoArgs
    /\ res = << >>
    /\ result = NoResult
    /\ outcome = "none"

NextPlane == PlaneStart \/ PlaneTrial \/ PlaneDone

SpecPlane == InitPlane /\ [][NextPlane]_vars

InitSample ==
    /\ pc = "samplecall"
    /\ inclusive = TRUE
    /\ src = {}
    /\ points \in PlaneInputs
    /\ fit = NoFit
    /\ first = NoSet
    /\ second = NoSet
    /\ ppm = NoPpm
    /\ args = NoArgs
    /\ res = << >>
    /\ result = NoResult
    /\ outcome = "none"

SpecSample == InitSample /\ [][ValidateSample]_vars

-----------------------------------------------------------------------------
(* calculatePpmMatrix, get_xyz_coords, getWhitePoint3DCoords *)

MaxFocal == 1            \* focal lengths 1..MaxFocal
MaxPix == 1              \* pixel indices 0..MaxPix in each direction
MaxWhite == 2            \* at most this many non-zero pixels in a mask
MaxWorld == 1            \* world coordinates -MaxWorld..MaxWorld

Intrinsics == {<< <<f, 0, c>>, <<0, f, c>>, <<0, 0, 1>> >> :
                 f \in 1..MaxFocal, c \in {0, 1}}
\* a rotation vector: a unit axis times a whole number of quarter turns
RotationVecs == {[axis |-> r, quarter |-> q] :
                   r \in {<<1, 0, 0>>, <<0, 1, 0>>, <<0, 0, 1>>}, q \in 0..3}
TranslationVecs == {<<0, 0, 0>>, <<0, 0, 1>>, <<1, 0, 1>>}
\* plane constraints [A, B, -1, -D], as calculatePlaneCoefs returns them
Constraints == {<<A, 0, -1, -D>> : A \in {0, 1}, D \in {0, 1}}
ConstraintLists == {<< >>} \cup {<<c>> : c \in Constraints}
                     \cup {<< <<0, 0, -1, 0>>, c >> : c \in {<<0, 0, -1, 0>>, <<1, 0, -1, 0>>}}
Pixels == (0..MaxPix) \X (0..MaxPix)
WhiteMasks == {m \in SUBSET Pixels : Cardinality(m) <= MaxWhite}
World == (-MaxWorld..MaxWorld) \X (-MaxWorld..MaxWorld) \X (-MaxWorld..MaxWorld)

\* cos and sin of q quarter turns
Cos4(q) == <<1, 0, -1, 0>>[q + 1]
Sin4(q) == <<0, 1, 0, -1>>[q + 1]

\* cv2.Rodrigues(rotation_vecs)[0] for the angle theta about the unit axis r:
\* cos(theta) I + (1 - cos(theta)) r r^T + sin(theta) [r]x
Rodrigues(rv) ==
    LET r == rv.axis
        c == Cos4(rv.quarter)
        sn == Sin4(rv.quarter)
        cross == << <<0, -r[3], r[2]>>, <<r[3], 0, -r[1]>>, <<-r[2], r[1], 0>> >>
    IN  [i \in 1..3 |-> [j \in 1..3 |->
            (IF i = j THEN c ELSE 0) + (1 - c) * r[i] * r[j] + sn * cross[i][j]]]

\* lines 85-91: intrinsic_matrix @ [rotation_matrix | translation_vecs]
calculatePpmMatrix(intrinsic_matrix, rotation_vecs, translation_vecs) ==
    LET rotation_matrix == Rodrigues(rotation_vecs)
        extrinsic_matrix == [i \in 1..3 |-> [j \in 1..4 |->
            IF j <= 3 THEN rotation_matrix[i][j] ELSE translation_vecs[i]]]
    IN  [i \in 1..3 |-> [j \in 1..4 |->
            intrinsic_matrix[i][1] * extrinsic_matrix[1][j]
          + intrinsic_matrix[i][2] * extrinsic_matrix[2][j]
          + intrinsic_matrix[i][3] * extrinsic_matrix[3][j]]]

\* lines 70-73: ppm[2] * i - ppm[0] (and with j, ppm[1]), a row of 4 entries
RayRow(p, idx, row) == [c \in 1..4 |-> p[3][c] * idx - p[row][c]]
\* a faulty variant: the right-hand side without its sign changed
RayRhsPlain(k) == k[4]
\* line 75: -k3[-1], -k4[-1]
RayRhs(k) == -k[4]

\* np.linalg.solve(a, b) for three equations, by Cramer's rule: the
\* solution is num[k] / den
Solve3(a, b) ==
    LET col(k) == [i \in 1..3 |-> [j \in 1..3 |-> IF j = k THEN b[i] ELSE a[i][j]]]
    IN  [num |-> <<Det3(col(1)), Det3(col(2)), Det3(col(3))>>, den |-> Det3(a)]

\* lines 69-82.  constraints is [given |-> FALSE] for the default None, and
\* [given |-> TRUE, list |-> ..] otherwise.  Iterating None is a TypeError;
\* np.linalg.solve raises LinAlgError for a system that is not square or
\* is singular.
get_xyz_coords(i, j, p, constraints) ==
    IF ~constraints.given THEN [outcome |-> "TypeError"]
    ELSE LET k3 == RayRow(p, i, 1)
             k4 == RayRow(p, j, 2)
             cs == constraints.list
             a  == << ConstraintRow(k3), ConstraintRow(k4) >>
                     \o [n \in 1..Len(cs) |-> ConstraintRow(cs[n])]
             b  == << RayRhs(k3), RayRhs(k4) >>
                     \o [n \in 1..Len(cs) |-> ConstraintRhs(cs[n])]
         IN  IF Len(a) # 3 \/ Det3(a) = 0
             THEN [outcome |-> "LinAlgError"]
             ELSE [outcome |-> "ok", value |-> Solve3(a, b)]

\* calculatePpmMatrix is called
BuildPpm ==
    /\ pc = "ppmcall"
    /\ ppm' = calculatePpmMatrix(args.intrinsic_matrix, args.rotation_vecs,
                                 args.translation_vecs)
    /\ pc' = "ready"
    /\ UNCHANGED <<src, points, args, res, result, outcome>>
    /\ UNCHANGED fitvars

\* get_xyz_coords is called on a pixel, with a constraint list or without
BackProject ==
    /\ pc = "ready"
    /\ \E px \in Pixels, cs \in {[given |-> FALSE]}
                          \cup {[given |-> TRUE, list |-> l] : l \in ConstraintLists} :
         LET r == get_xyz_coords(px[1], px[2], ppm, cs)
         IN  /\ args' = [op |-> "get_xyz_coords", i |-> px[1], j |-> px[2],
                         constraints |-> cs]
             /\ IF r.outcome = "ok"
                THEN /\ result' = [kind |-> "point", value |-> r.value]
                     /\ outcome' = "ok"
                     /\ pc' = "returned"
                ELSE Raise(r.outcome)
    /\ UNCHANGED <<src, points, ppm, res>>
    /\ UNCHANGED fitvars

\* getWhitePoint3DCoords, lines 114-115.  cv2.findNonZero gives None for a
\* mask without a non-zero pixel, and iterating None is a TypeError.
WhiteStart ==
    /\ pc = "ready"
    /\ \E mask \in WhiteMasks, l \in ConstraintLists :
         /\ src' = mask
         /\ args' = [op |-> "getWhitePoint3DCoords",
                     constraints |-> [given |-> TRUE, list |-> l]]
         /\ points' = findNonZero(mask)
         /\ res' = << >>
         /\ IF mask = {}
            THEN Raise("TypeError")
            ELSE /\ pc' = "white"
                 /\ UNCHANGED <<result, outcome>>
    /\ UNCHANGED ppm
    /\ UNCHANGED fitvars

\* one iteration of the loop of lines 116-118: an exception of
\* get_xyz_coords is not caught, so it ends the whole call
WhiteStep ==
    /\ pc = "white"
    /\ Len(res) < Len(points)
    /\ LET pixel == points[Len(res) + 1]
           r == get_xyz_coords(pixel[1], pixel[2], ppm, args.constraints)
       IN  IF r.outcome = "ok"
           THEN /\ res' = Append(res, r.value)
                /\ UNCHANGED <<pc, result, outcome>>
           ELSE /\ Raise(r.outcome)
                /\ UNCHANGED res
    /\ UNCHANGED <<src, points, ppm, args>>
    /\ UNCHANGED fitvars

\* line 120
WhiteReturn ==
    /\ pc = "white"
    /\ Len(res) = Len(points)
    /\ result' = [kind |-> "points", list |-> res]
    /\ outcome' = "ok"
    /\ pc' = "returned"
    /\ UNCHANGED <<src, points, ppm, args, res>>
    /\ UNCHANGED fitvars

InitBack ==
    /\ pc = "ppmcall"
    /\ inclusive = TRUE
    /\ src = {}
    /\ points = << >>
    /\ fit = NoFit
    /\ first = NoSet
    /\ second = NoSet
    /\ ppm = NoPpm
    /\ \E K \in Intrinsics, rv \in RotationVecs, t \in TranslationVecs :
         args = [op |-> "calculatePpmMatrix", intrinsic_matrix |-> K,
                 rotation_vecs |-> rv, translation_vecs |-> t]
    /\ res = << >>
    /\ result = NoResult
    /\ outcome = "none"

NextBack == BuildPpm \/ BackProject \/ WhiteStart \/ WhiteStep \/ WhiteReturn

SpecBack == InitBack /\ [][NextBack]_vars

-----------------------------------------------------------------------------
(* Claims about splitTopBottomPoints and calculateLineCoefs *)

\* C1 (as stated): the mask of the fit with the smaller intercept is
\* returned as bottom (first element), the other as top.
C1_SmallerInterceptIsBottom ==
    (pc = "returned" /\ result.kind = "pair") =>
        /\ FracLess(first.intercept, second.intercept) =>
              (result.bottom = first.mask /\ result.top = second.mask)
        /\ FracLess(second.intercept, first.intercept) =>
              (result.bottom = second.mask /\ result.top = first.mask)

\* C1 (amended): the mask of the fit with the smaller intercept is returned
\* as top (second element of the pair) and the mask of the fit with the
\* larger intercept as bottom (first element).
C1_SmallerInterceptIsTop ==
    (pc = "returned" /\ result.kind = "pair") =>
        /\ FracLess(first.intercept, second.intercept) =>
              (result.top = first.mask /\ result.bottom = second.mask)
        /\ FracLess(second.intercept, first.intercept) =>
              (result.top = second.mask /\ result.bottom = first.mask)

C1_Witness ==
    /\ pc = "returned" /\ result.kind = "pair"
    /\ FracLess(first.intercept, second.intercept)
    /\ first.mask # second.mask
    /\ result.top = first.mask

\* C2: with validateDataLine(c) as is_model_valid, the intercept that
\* calculateLineCoefs returns differs from c by more than 25.
C2_ReturnedInterceptOutsideGap ==
    (pc = "returned" /\ result.kind = "line") =>
        validateDataLine(fit.ref, [in |-> result.intercept[1],
                                   d |-> result.intercept[2]])

\* C7: once the first fit has produced its inliers, fewer than two points
\* left in P_rest make the call raise: no pair and no single mask is returned.
C7_TooFewRestPointsRaises ==
    (first.mask # {} /\ Len(points) < LineMinSamples) =>
        (pc = "raised" /\ outcome = "ValueError" /\ result = NoResult)

C7_Witness ==
    /\ first.mask = src /\ src # {}
    /\ Len(points) = 0
    /\ pc = "raised" /\ outcome = "ValueError" /\ result = NoResult

\* C10: the two returned masks are disjoint and each of their non-zero
\* pixels is a non-zero pixel of the input mask.
C10_MasksDisjointWithinInput ==
    (pc = "returned" /\ result.kind = "pair") =>
        /\ result.bottom \cap result.top = {}
        /\ (result.bottom \cup result.top) \subseteq src

C10_Witness ==
    /\ pc = "returned" /\ result.kind = "pair"
    /\ result.bottom # {} /\ result.top # {}
    /\ \E p \in result.bottom \cup result.top : p[1] # p[2]

-----------------------------------------------------------------------------
(* Claims about calculatePlaneCoefs and validateData *)

DistinctZ(b) == Cardinality({b[1], b[2], b[3]})

C6_BudgetThenFailure ==
    /\ fit.n_trials <= PlaneMaxTrials
    /\ (pc = "plane" /\ fit.n_trials = PlaneMaxTrials) => ~ENABLED PlaneTrial
    /\ (pc \in {"returned", "raised"} /\ fit.all_invalid) =>
          (pc = "raised" /\ outcome = "ValueError" /\ result = NoResult)

C6_Witness ==
    /\ pc = "raised" /\ outcome = "ValueError"
    /\ fit.all_invalid
    /\ fit.n_trials = PlaneMaxTrials

\* the points the plane equations are compared on
PlaneTestPoints == (0..1) \X (0..1) \X (-1..(MaxZ + 1))

\* z = A*x + B*y + D for the fitted estimator
OnFittedPlane(model, p) ==
    model.den * p[3] = model.a * p[1] + model.b * p[2] + model.d0

\* C9: the list calculatePlaneCoefs returns, read by get_xyz_coords as the
\* constraint a*x + b*y + c*z = d, holds of a point exactly when the point
\* lies on the fitted plane z = A*x + B*y + D.
C9_ListDenotesFittedPlane ==
    (pc = "returned" /\ result.kind = "plane") =>
        \A p \in PlaneTestPoints :
            ConstraintHolds(result.list.coefs, p) <=> OnFittedPlane(fit.estimator, p)

C9_Witness ==
    /\ pc = "returned" /\ result.kind = "plane"
    /\ fit.estimator.d0 # 0
    /\ \E p \in PlaneTestPoints :
         ConstraintHolds(result.list.coefs, p) /\ OnFittedPlane(fit.estimator, p)

-----------------------------------------------------------------------------
(* Claims about get_xyz_coords and getWhitePoint3DCoords *)

\* the 3x3 system of the ray through pixel (i, j) and one constraint c
RaySystem(p, i, j, c) ==
    << ConstraintRow(RayRow(p, i, 1)), ConstraintRow(RayRow(p, j, 2)),
       ConstraintRow(c) >>

\* the number of constraints a call supplies (none by default)
NConstraints(cs) == IF cs.given THEN Len(cs.list) ELSE 0

\* C4: get_xyz_coords ends in the singular-system error (LinAlgError) and
\* returns no point whenever zero constraints are supplied (the default
\* argument included), two or more are supplied, or the one supplied makes
\* the system singular.
C4_IllPosedIsLinAlgError ==
    (args.op = "get_xyz_coords" /\ pc \in {"returned", "raised"}) =>
        ((\/ NConstraints(args.constraints) # 1
          \/ Det3(RaySystem(ppm, args.i, args.j, args.constraints.list[1])) = 0)
            => (outcome = "LinAlgError" /\ result = NoResult))

\* P * [X, 1] has non-zero depth and is the pixel (i, j)
ProjectsTo(p, X, i, j) ==
    LET h(r) == Dot3(ConstraintRow(p[r]), X) + p[r][4]
    IN  h(3) # 0 /\ h(1) = i * h(3) /\ h(2) = j * h(3)

\* the fraction vector v is the integer point X
IsPoint(v, X) == \A k \in 1..3 : v.num[k] = v.den * X[k]

\* C5: when a world point X lies on the plane constraint and projects to the
\* pixel (i, j) with non-zero depth, get_xyz_coords on (i, j) with that
\* constraint returns X whenever the system is non-singular.
C5_RoundTrip ==
    (args.op = "get_xyz_coords" /\ pc = "returned") =>
        \A X \in World :
            (/\ ConstraintHolds(args.constraints.list[1], X)
             /\ ProjectsTo(ppm, X, args.i, args.j))
                => IsPoint(result.value, X)

C5_Witness ==
    /\ args.op = "get_xyz_coords" /\ pc = "returned"
    /\ ppm[1][4] # 0
    /\ \E X \in World :
         /\ X # <<0, 0, 0>>
         /\ ConstraintHolds(args.constraints.list[1], X)
         /\ ProjectsTo(ppm, X, args.i, args.j)
         /\ IsPoint(result.value, X)

\* C8: when get_xyz_coords fails for a pixel of the mask, the 3D points of
\* the pixels it succeeds for are still returned by getWhitePoint3DCoords.
C8_FailingPixelSkipped ==
    (args.op = "getWhitePoint3DCoords" /\ pc \in {"returned", "raised"}) =>
        \A n \in 1..Len(points) :
            LET r == get_xyz_coords(points[n][1], points[n][2], ppm, args.constraints)
            IN  r.outcome = "ok" =>
                    /\ outcome = "ok"
                    /\ \E m \in 1..Len(result.list) : result.list[m] = r.value

=============================================================================
